---- MODULE Spec2Model ----
(***************************************************************************)
(* Model of the bsc_streamer event-routing core:                           *)
(*   - MultiTokenStreamer (src/src/multi_token_streamer.rs): the registry  *)
(*     table, add_token / remove_token / stop_all and the per-token        *)
(*     supervisor task;                                                    *)
(*   - SwapStreamer (src/src/core/streamer.rs): discovery, the DEX Swap    *)
(*     listeners, the bonding-curve Transfer and PairCreated listeners and *)
(*     the migration hand-off task.                                        *)
(*   - SwapParser (src/src/core/swap_parser.rs) and the bonding-curve      *)
(*     probe: what they return for a log / a token, by what the log        *)
(*     carries and what the node answers.                                  *)
(*   - PairFinder (src/src/core/pair_finder.rs): the V3 fee tier scan and  *)
(*     the liquidity filter, by what the factory and the oracle answer;    *)
(*   - TokenInfoCache (src/src/core/token_info.rs): get_token_info.        *)
(* A "call" c is one invocation that starts a streamer: either add_token   *)
(* on the registry (kind "registry") or a direct call of                   *)
(* start_with_migration_callback_and_cancel by a library user who holds    *)
(* the cancellation token (kind "direct").                                 *)
(* Steps are the code between two lock acquisitions / awaits.              *)
(***************************************************************************)
EXTENDS Integers, FiniteSets, Sequences, TLC

\* ---------------------------------------------------------------- bounds
MaxCalls == 2      \* streamer-starting invocations (add_token or direct start)
MaxPools == 1      \* DEX pools a token has once it trades on the DEX
MaxLogs  == 1      \* Swap logs a pool emits / Transfer events delivered per call
MaxBases == 1      \* base tokens a token is paired against (7 in config.rs)
MaxCands == 2      \* candidate pools handed to the liquidity filter
MaxAmount == 2     \* largest amount a log carries
MaxInfoCalls == 2  \* get_token_info calls made for one address
MaxTasks == 2      \* tasks that look up token metadata
MaxReceiptLogs == 2   \* logs in one transaction receipt

Calls  == 1..MaxCalls
Pools  == 1..MaxPools
Tokens == {"A", "B"}
NoAddr == "-"

VARIABLES
  tokens,        \* registry table: Tokens -> 0 (no entry) or the call whose handle is stored
  cancelled,     \* Calls -> BOOLEAN: the registry handle allocated by add_token call c is signalled
  kind,          \* Calls -> "none" | "registry" | "direct"
  addr,          \* Calls -> token address of the call
  sink,          \* Calls -> BOOLEAN: migration_callback is Some
  addpc,         \* Calls -> position of add_token: "idle" | "checked" | "ok" | "err"
  sup,           \* Calls -> supervisor task: "none" | "select" | "cleanup" | "exited"
  str,           \* Calls -> streamer future: "none" | "finding" | "probing" | "dex" | "curve" | "failed" | "dropped"
  stok,          \* Calls -> BOOLEAN: the cancel_token given to the streamer's tasks is cancelled
  is_streaming,  \* Calls -> BOOLEAN: SwapStreamer.is_streaming
  swapL,         \* Calls -> Pools -> Swap listener task: "none" | "subscribing" | "listening" |
                 \*          "done" (returned) | "ended" (returned on a closed stream) | "panicked"
  next,          \* Calls -> Pools -> index of the next pool log the subscription will yield
  xfer,          \* Calls -> Transfer listener task: "none" | "subscribing" | "listening" | "done" |
                 \*          "ended" | "panicked"
  pcl,           \* Calls -> PairCreated listener: "none" | "subscribing" | "listening" | "pending" |
                 \*          "done" | "ended"
  hand,          \* Calls -> migration hand-off task: "none" | "waiting" (in recv) | "finding" (re-running
                 \*          find_pairs) | "closed" (recv gave None) | "gaveup" (no pair: return) | "spawned"
  chan,          \* Calls -> 0..1: items in the capacity-1 migration channel
  migEv,         \* Calls -> number of MigrationEvents delivered to the migration sink
  migLog,        \* Calls -> the MigrationEvents delivered, in order
  swapEv,        \* Calls -> number of PancakeSwap SwapEvents delivered to the swap sink
  curveEv,       \* Calls -> number of FourMemeBondingCurve SwapEvents delivered to the swap sink
  rm,            \* the remove_token caller: [pc, t, h], pc: "idle" | "read" | "ok" | "err",
                 \*          t: the address argument, h: the handle read (the call that allocated it)
  chain,         \* Tokens -> "curve" (no DEX pool exists yet) | "dex" (PairCreated was emitted)
  emitted,       \* Tokens -> Pools -> number of Swap logs the pool has emitted
  inp,           \* the log handed to a parser or the token handed to the probe, with the
                 \*          answers the node gives to the RPC requests made on its behalf
  out,           \* [fn, res]: the function that was applied to inp and what it returned
  cache,         \* Caches -> Tokens -> the metadata stored in that TokenInfoCache, or NoMeta
  gti,           \* Callers -> the get_token_info call in progress: [pc, t, k],
                 \*          pc: "idle" | "fetch", t: the address, k: the cache it works on
  fetches,       \* Caches -> Tokens -> sets of contract calls (name, symbol, decimals) issued
  rets           \* Caches -> Tokens -> the metadata get_token_info returned, call after call

regVars   == <<tokens, cancelled, rm>>
callVars  == <<kind, addr, sink, addpc>>
strVars   == <<sup, str, stok, is_streaming>>
swapVars  == <<swapL, next>>
curveVars == <<xfer, pcl, hand, chan>>
evVars    == <<migEv, migLog, swapEv, curveEv>>
envVars   == <<chain, emitted>>
cacheVars == <<cache, gti, fetches, rets>>
decVars   == <<inp, out, cacheVars>>
vars == <<tokens, cancelled, kind, addr, sink, addpc, sup, str, stok, is_streaming,
          swapL, next, xfer, pcl, hand, chan, migEv, migLog, swapEv, curveEv, rm,
          chain, emitted, inp, out, cache, gti, fetches, rets>>

\* ---------------------------------------------------------------- registry queries
is_monitoring(T) == tokens[T] # 0
list_tokens == {T \in Tokens : tokens[T] # 0}
token_count == Cardinality(list_tokens)

\* ---------------------------------------------------------------- task bookkeeping
SwapAlive(c)  == {p \in Pools : swapL[c][p] \in {"subscribing", "listening"}}
XferAlive(c)  == xfer[c] \in {"subscribing", "listening"}
PclAlive(c)   == pcl[c] \in {"subscribing", "listening", "pending"}
HandAlive(c)  == hand[c] \in {"waiting", "finding"}
\* subscription (listener) tasks of call c that have not terminated
ListenerAlive(c) == SwapAlive(c) # {} \/ XferAlive(c) \/ PclAlive(c)
SupervisorAlive(c) == sup[c] \in {"select", "cleanup"}
LiveSupervisors == {c \in Calls : SupervisorAlive(c)}

\* ---------------------------------------------------------------- decoding and probing
\* A log and the node's answers, as far as the parsers and the probe look at them:
\*   decode           the RPC reads (token0, token1, token info) succeed or fail
\*   block_number     log.block_number is Some
\*   transaction_hash log.transaction_hash is Some
\*   side             Transfer log: from the launchpad, to it, both, or neither
\*   tx               get_transaction / get_transaction_receipt succeed or fail
\*   get_block        Err, Ok(None) or Ok(Some(block))
\*   get_block_number, balance, get_logs   the probe's three requests
\*   is_v3            pair_info.is_v3: the subscription asks for the V3 Swap topic
\*                    and the log is a V3 Swap log
\*   watched          the side of the pool the watched token is on
\*   amount0_in .. amount1_out   data of a V2 Swap log
\*   amount0, amount1            the signed amounts of a V3 Swap log
\*   topics, value, bnb          Transfer log: number of topics and value; the BNB
\*                               amount found in the transaction or its receipt
Amounts == 0..MaxAmount
SignedAmounts == (0 - MaxAmount)..MaxAmount
Sides == {"token0", "token1"}

Inputs ==
  [decode : {"ok", "err"}, block_number : BOOLEAN, transaction_hash : BOOLEAN,
   side : {"from_curve", "to_curve", "other"}, tx : {"ok", "err"},
   get_block : {"err", "none", "some"},
   get_block_number : {"ok", "err"}, balance : {"pos", "zero", "err"},
   get_logs : {"err", "hit", "miss"},
   is_v3 : {FALSE}, watched : {"token0"},
   amount0_in : {1}, amount1_in : {0}, amount0_out : {0}, amount1_out : {1},
   amount0 : {0}, amount1 : {0}, topics : {3}, value : {1}, bnb : {1}]

NoInput ==
  [decode |-> "ok", block_number |-> TRUE, transaction_hash |-> TRUE,
   side |-> "from_curve", tx |-> "ok", get_block |-> "some",
   get_block_number |-> "ok", balance |-> "pos", get_logs |-> "hit",
   is_v3 |-> FALSE, watched |-> "token0",
   amount0_in |-> 1, amount1_in |-> 0, amount0_out |-> 0, amount1_out |-> 1,
   amount0 |-> 0, amount1 |-> 0, topics |-> 3, value |-> 1, bnb |-> 1]

\* every Swap log a pool subscription can deliver, V2 or V3, with the node
\* answering or failing the RPC reads
SwapLogs ==
  {[NoInput EXCEPT !.decode = d, !.watched = w,
                   !.amount0_in = a[1], !.amount1_in = a[2],
                   !.amount0_out = a[3], !.amount1_out = a[4]] :
      d \in {"ok", "err"}, w \in Sides,
      a \in Amounts \X Amounts \X Amounts \X Amounts}
  \cup
  {[NoInput EXCEPT !.decode = d, !.watched = w, !.is_v3 = TRUE,
                   !.amount0_in = 0, !.amount1_out = 0,
                   !.amount0 = a[1], !.amount1 = a[2]] :
      d \in {"ok", "err"}, w \in Sides, a \in SignedAmounts \X SignedAmounts}

\* every Transfer log of the watched token the Transfer subscription can deliver
TransferLogs ==
  {[NoInput EXCEPT !.side = s, !.topics = n, !.value = a[1], !.bnb = a[2],
                   !.tx = t] :
      s \in {"from_curve", "to_curve", "both", "other"}, n \in {2, 3},
      a \in Amounts \X Amounts, t \in {"ok", "err"}}

\* trade_type with the raw token and base amounts of a SwapEvent
Trade(tt, ta, ba) == [trade_type |-> tt, token_amount |-> ta, base_amount |-> ba]
NoTrade == Trade("-", 0, 0)

\* what a function returned: Ok(event), Ok(None) ("skip"), Err, a panic, or
\* the probe's Ok(true) / Ok(false)
Returned(k) ==
  [kind |-> k, platform |-> "-", timestamp |-> "-",
   pair_address |-> "-", bonding_curve_address |-> "-", trade |-> NoTrade]

OkEvent(pf, ts, pair, curve, tr) ==
  [kind |-> "ok", platform |-> pf, timestamp |-> ts,
   pair_address |-> pair, bonding_curve_address |-> curve, trade |-> tr]

\* block.and_then(..): Ok(None) gives None, a block gives its time
Timestamp(i) == IF i.get_block = "some" THEN "some" ELSE "none"

\* is_token0_target, then amount_out of the watched side > 0: Buy with that
\* amount_out and the other side's amount_in, else Sell with the watched side's
\* amount_in and the other side's amount_out
V2Trade(i) ==
  IF i.watched = "token0"
  THEN IF i.amount0_out > 0 THEN Trade("Buy", i.amount0_out, i.amount1_in)
       ELSE Trade("Sell", i.amount0_in, i.amount1_out)
  ELSE IF i.amount1_out > 0 THEN Trade("Buy", i.amount1_out, i.amount0_in)
       ELSE Trade("Sell", i.amount1_in, i.amount0_out)

\* event.parse_log(log) with the Swap event of PAIR_ABI (the V2 event): the
\* log's first topic must be that event's signature, else Err
ParseLog(i) == IF i.is_v3 THEN "err" ELSE "ok"

\* a parser that fills in both venue addresses
parse_swap_event_both_venues(i) ==
  IF i.decode = "err" THEN Returned("err")
  ELSE IF ParseLog(i) = "err" THEN Returned("err")
  ELSE IF ~i.block_number THEN Returned("panic")
  ELSE IF i.get_block = "err" THEN Returned("err")
  ELSE IF ~i.transaction_hash THEN Returned("panic")
  ELSE OkEvent("PancakeSwap", Timestamp(i), "some", "some", V2Trade(i))

\* a parser that reads Buy off the watched side's amount_in
parse_swap_event_buy_on_in(i) ==
  IF i.decode = "err" THEN Returned("err")
  ELSE IF ParseLog(i) = "err" THEN Returned("err")
  ELSE IF ~i.block_number THEN Returned("panic")
  ELSE IF i.get_block = "err" THEN Returned("err")
  ELSE IF ~i.transaction_hash THEN Returned("panic")
  ELSE OkEvent("PancakeSwap", Timestamp(i), "some", "none",
               IF i.watched = "token0"
               THEN IF i.amount0_in > 0 THEN Trade("Buy", i.amount0_out, i.amount1_in)
                    ELSE Trade("Sell", i.amount0_in, i.amount1_out)
               ELSE IF i.amount1_in > 0 THEN Trade("Buy", i.amount1_out, i.amount0_in)
                    ELSE Trade("Sell", i.amount1_in, i.amount0_out))

\* token0/token1, token info (each `?`); event.parse_log(..)?; the trade;
\* get_block(log.block_number.unwrap()).await?; then the SwapEvent with
\* log.transaction_hash.unwrap().  There is no branch on pair_info.is_v3.
parse_swap_event(i) ==
  IF i.decode = "err" THEN Returned("err")
  ELSE IF ParseLog(i) = "err" THEN Returned("err")
  ELSE IF ~i.block_number THEN Returned("panic")
  ELSE IF i.get_block = "err" THEN Returned("err")
  ELSE IF ~i.transaction_hash THEN Returned("panic")
  ELSE OkEvent("PancakeSwap", Timestamp(i), "some", "none", V2Trade(i))

\* from == bonding_curve: Buy; else to == bonding_curve: Sell; the token
\* amount is the log's value, the base amount the BNB amount found
CurveTrade(i) ==
  IF i.side \in {"from_curve", "both"} THEN Trade("Buy", i.value, i.bnb)
  ELSE Trade("Sell", i.value, i.bnb)

\* a parser that reads the direction the other way round
parse_bonding_curve_event_inverted(i) ==
  IF i.topics < 3 THEN Returned("panic")
  ELSE IF i.side = "other" THEN Returned("skip")
  ELSE IF i.decode = "err" THEN Returned("err")
  ELSE IF ~i.transaction_hash THEN Returned("panic")
  ELSE IF i.tx = "err" THEN Returned("err")
  ELSE IF ~i.block_number THEN Returned("panic")
  ELSE IF i.get_block = "err" THEN Returned("err")
  ELSE OkEvent("FourMemeBondingCurve", Timestamp(i), "none", "some",
               IF i.side \in {"from_curve", "both"} THEN Trade("Sell", i.value, i.bnb)
               ELSE Trade("Buy", i.value, i.bnb))

\* log.topics[1], log.topics[2] (a panic on a shorter log); from/to against the
\* launchpad (else Ok(None)); token info (`?`); the transaction or its receipt
\* by log.transaction_hash.unwrap() (`?`);
\* get_block(log.block_number.unwrap()).await?; then the SwapEvent
parse_bonding_curve_event(i) ==
  IF i.topics < 3 THEN Returned("panic")
  ELSE IF i.side = "other" THEN Returned("skip")
  ELSE IF i.decode = "err" THEN Returned("err")
  ELSE IF ~i.transaction_hash THEN Returned("panic")
  ELSE IF i.tx = "err" THEN Returned("err")
  ELSE IF ~i.block_number THEN Returned("panic")
  ELSE IF i.get_block = "err" THEN Returned("err")
  ELSE OkEvent("FourMemeBondingCurve", Timestamp(i), "none", "some", CurveTrade(i))

\* ---------------------------------------------------------------- base amount recovery
\* the cap of the receipt scan, 1000 * 10^18 wei, in units of 10^18 wei
MAX_BNB_AMOUNT == 1000
BnbValues == {0, 1, 2, MAX_BNB_AMOUNT}

\* a log of a receipt, as far as the scan looks at it: emitted by the launchpad
\* or not, the length of its data, and the words at data[64..96], data[128..160]
ReceiptLogs ==
  {[launchpad |-> TRUE, len |-> 0, at64 |-> 0, at128 |-> 0]}
  \cup {[launchpad |-> TRUE, len |-> 96, at64 |-> a, at128 |-> 0] : a \in BnbValues}
  \cup {[launchpad |-> TRUE, len |-> 160, at64 |-> a, at128 |-> b] :
          a \in BnbValues, b \in BnbValues}
  \cup {[launchpad |-> FALSE, len |-> 160, at64 |-> 1, at128 |-> b] : b \in BnbValues}

RECURSIVE SeqsUpTo(_, _)
SeqsUpTo(S, n) ==
  IF n = 0 THEN {<<>>}
  ELSE LET R == SeqsUpTo(S, n - 1) IN R \cup {Append(s, x) : s \in R, x \in S}

\* a Transfer log from or to the launchpad with the node's answers to
\* get_transaction (Err, Ok(None), Ok(Some(tx)) with tx.value) and to
\* get_transaction_receipt (Err, Ok(None), Ok(Some(receipt)) with its logs)
RecoveryInputs ==
  {[NoInput EXCEPT !.side = s, !.value = v]
     @@ [get_transaction |-> t[1], tx_value |-> t[2], receipt |-> r[1], logs |-> r[2]] :
      s \in {"from_curve", "to_curve"}, v \in {0, 1},
      t \in ({"some"} \X {0, 1}) \cup {<<"none", 0>>, <<"err", 0>>},
      r \in ({"some"} \X SeqsUpTo(ReceiptLogs, MaxReceiptLogs))
              \cup {<<"none", <<>> >>, <<"err", <<>> >>}}

\* bnb_amount > 0 && bnb_amount < 1000 * 10^18
Reasonable(v) == v > 0 /\ v < MAX_BNB_AMOUNT

\* a scan that tries data[64..96] before data[128..160]
RECURSIVE scan_receipt_offset64_first(_)
scan_receipt_offset64_first(logs) ==
  IF logs = <<>> THEN 0
  ELSE LET l == Head(logs) IN
    IF ~l.launchpad THEN scan_receipt_offset64_first(Tail(logs))
    ELSE IF l.len >= 96 /\ Reasonable(l.at64) THEN l.at64
    ELSE IF l.len >= 160 /\ Reasonable(l.at128) THEN l.at128
    ELSE scan_receipt_offset64_first(Tail(logs))

\* for tx_log in &receipt.logs: a launchpad log with data.len() >= 160 and a
\* reasonable word at 128 ends the scan with it; else data.len() >= 96 and a
\* reasonable word at 64 ends it; else the next log; found_bnb stays 0
RECURSIVE scan_receipt(_)
scan_receipt(logs) ==
  IF logs = <<>> THEN 0
  ELSE LET l == Head(logs) IN
    IF ~l.launchpad THEN scan_receipt(Tail(logs))
    ELSE IF l.len >= 160 /\ Reasonable(l.at128) THEN l.at128
    ELSE IF l.len >= 96 /\ Reasonable(l.at64) THEN l.at64
    ELSE scan_receipt(Tail(logs))

\* get_transaction_receipt(..).await?: Err propagates, None gives 0, a receipt
\* is scanned
receipt_bnb(i) ==
  IF i.receipt = "err" THEN [tx |-> "err", bnb |-> 0]
  ELSE IF i.receipt = "none" THEN [tx |-> "ok", bnb |-> 0]
  ELSE [tx |-> "ok", bnb |-> scan_receipt(i.logs)]

\* Buy: get_transaction(..).await?, tx.map(|t| t.value).unwrap_or_default(),
\* the receipt when that is zero.  Sell: the receipt.
bnb_amount(i) ==
  IF i.side \in {"from_curve", "both"}
  THEN IF i.get_transaction = "err" THEN [tx |-> "err", bnb |-> 0]
       ELSE LET tx_value == IF i.get_transaction = "some" THEN i.tx_value ELSE 0
            IN IF tx_value = 0 THEN receipt_bnb(i) ELSE [tx |-> "ok", bnb |-> tx_value]
  ELSE receipt_bnb(i)

\* price = bnb_amount / token_amount when token_amount > 0, else 0.0; kept as
\* the pair <<numerator, denominator>>
curve_price(tr) ==
  IF tr.token_amount > 0 THEN <<tr.base_amount, tr.token_amount>> ELSE <<0, 1>>

\* parse_bonding_curve_event with the base amount recovered from the node's answers
parse_bonding_curve_event_recovering(i) ==
  LET b == bnb_amount(i) IN parse_bonding_curve_event([i EXCEPT !.tx = b.tx, !.bnb = b.bnb])

\* the Transfer listener on a log: fewer than three topics, or neither from nor
\* to is the launchpad: nothing is done; else the parser is called
transfer_listener_log(i) ==
  IF i.topics >= 3 /\ i.side # "other" THEN parse_bonding_curve_event(i)
  ELSE Returned("skip")

\* get_block_number().await?; balanceOf: positive -> true, zero -> false, Err ->
\* scan the Transfer logs of the last 100 blocks: a launchpad transfer -> true,
\* none or a failed get_logs -> false
check_bonding_curve(i) ==
  IF i.get_block_number = "err" THEN Returned("err")
  ELSE IF i.balance = "pos" THEN Returned("yes")
  ELSE IF i.balance = "zero" THEN Returned("no")
  ELSE IF i.get_logs = "hit" THEN Returned("yes")
  ELSE Returned("no")

\* ---------------------------------------------------------------- token info cache
\* TokenMetadata: each field is what the contract answered, or the default
\* ("Unknown", "UNKNOWN", 18) taken when the call failed
NoMeta == [name |-> "-", symbol |-> "-", decimals |-> "-"]
\* the tasks that look up metadata, and the caches: every task that is spawned
\* with a clone of the parser owns the cache that the clone built
Callers == 1..MaxTasks
Caches == 1..MaxTasks
NoLookup == [pc |-> "idle", t |-> NoAddr, k |-> 0]
Metadata(n, s, d) ==
  [name |-> IF n = "ok" THEN "name" ELSE "Unknown",
   symbol |-> IF s = "ok" THEN "symbol" ELSE "UNKNOWN",
   decimals |-> IF d = "ok" THEN "decimals" ELSE "18"]

\* ---------------------------------------------------------------- pair finder
MIN_LIQUIDITY_USD == 5000
V3_FEE_TIERS == <<100, 500, 2500, 10000>>
Tiers == 1..Len(V3_FEE_TIERS)

\* the base tokens a token is paired against, and the candidate pools handed
\* to the liquidity filter
Bases == 1..MaxBases
Cands == 1..MaxCands

\* What the V3 factory holds and answers for (token, B, fee) of every base B and
\* fee tier: getPool returns the pool, returns the zero address, or fails; a
\* failed call says nothing of the pool, which may exist or not.
TierAnswers == {"pool", "zero", "err_pool", "err_zero"}
PoolExists(a) == a \in {"pool", "err_pool"}
FactoryAnswers == [getPool : [Bases -> [Tiers -> TierAnswers]]]

\* the tier loop of one base token: a non-zero answer is recorded and ends the
\* loop (break); a zero answer and a failed call go on to the next tier;
\* 0 when the loop runs out
RECURSIVE ScanTiers(_, _)
ScanTiers(answers, k) ==
  IF k > Len(V3_FEE_TIERS) THEN 0
  ELSE IF answers[k] = "pool" THEN k
  ELSE ScanTiers(answers, k + 1)

\* the V3 pools recorded, as (base token, tier) pairs
find_v3_pairs(i) ==
  {bt \in Bases \X Tiers : ScanTiers(i.getPool[bt[1]], 1) = bt[2]}

\* The candidates of the V2 and V3 scans and the oracle's answer to one GET:
\*   pairs      the candidates found
\*   oracle     the response parsed, the request failed, or the body did not parse
\*   entry      per candidate: listed on this chain with a usd figure, not in the
\*              response, listed without liquidity.usd, or listed for another chainId
\*   liquidity  per candidate: the pool's USD liquidity (what a listing reports)
LiquidityLevels == {0, MIN_LIQUIDITY_USD - 1, MIN_LIQUIDITY_USD}
OracleAnswers ==
  [pairs : SUBSET Cands, oracle : {"ok", "unreachable", "unparsable"},
   entry : [Cands -> {"listed", "missing", "no_usd", "other_chain"}],
   liquidity : [Cands -> LiquidityLevels]]

\* liquidity_map: filled from a parsed response only, with the entries whose
\* chainId is "bsc" and that carry pairAddress and liquidity.usd
liquidity_map(i) ==
  IF i.oracle = "ok" THEN {p \in Cands : i.entry[p] = "listed"} ELSE {}

\* a filter that drops what the oracle does not list
filter_by_liquidity_listed_only(pairs, i) ==
  {p \in pairs : p \in liquidity_map(i) /\ i.liquidity[p] >= MIN_LIQUIDITY_USD}

\* no candidates: returned as is; else a candidate in the map is kept when its
\* liquidity is >= MIN_LIQUIDITY_USD and dropped below it, and a candidate not
\* in the map is kept (with a warning)
filter_by_liquidity(pairs, i) ==
  IF pairs = {} THEN {}
  ELSE {p \in pairs : p \in liquidity_map(i) => i.liquidity[p] >= MIN_LIQUIDITY_USD}

NoResult == [fn |-> "none", res |-> Returned("-")]

InitRegistry ==
  /\ tokens = [T \in Tokens |-> 0]
  /\ cancelled = [c \in Calls |-> FALSE]
  /\ kind = [c \in Calls |-> "none"]
  /\ addr = [c \in Calls |-> NoAddr]
  /\ sink = [c \in Calls |-> FALSE]
  /\ addpc = [c \in Calls |-> "idle"]
  /\ sup = [c \in Calls |-> "none"]
  /\ str = [c \in Calls |-> "none"]
  /\ stok = [c \in Calls |-> FALSE]
  /\ is_streaming = [c \in Calls |-> FALSE]
  /\ swapL = [c \in Calls |-> [p \in Pools |-> "none"]]
  /\ next = [c \in Calls |-> [p \in Pools |-> 0]]
  /\ xfer = [c \in Calls |-> "none"]
  /\ pcl = [c \in Calls |-> "none"]
  /\ hand = [c \in Calls |-> "none"]
  /\ chan = [c \in Calls |-> 0]
  /\ migEv = [c \in Calls |-> 0]
  /\ migLog = [c \in Calls |-> <<>>]
  /\ swapEv = [c \in Calls |-> 0]
  /\ curveEv = [c \in Calls |-> 0]
  /\ rm = [pc |-> "idle", t |-> NoAddr, h |-> 0]
  /\ chain = [T \in Tokens |-> IF T = "A" THEN "curve" ELSE "dex"]
  /\ emitted = [T \in Tokens |-> [p \in Pools |-> 0]]
  /\ cache = [k \in Caches |-> [T \in Tokens |-> NoMeta]]
  /\ gti = [g \in Callers |-> NoLookup]
  /\ fetches = [k \in Caches |-> [T \in Tokens |-> 0]]
  /\ rets = [k \in Caches |-> [T \in Tokens |-> <<>>]]

Init ==
  /\ InitRegistry
  /\ inp = NoInput
  /\ out = NoResult

\* ---------------------------------------------------------------- MultiTokenStreamer
\* an add_token that skips the membership test
AddTokenCheckNoTest(c, T, s) ==
  /\ kind[c] = "none"
  /\ \A d \in Calls : d < c => kind[d] # "none"
  /\ kind' = [kind EXCEPT ![c] = "registry"]
  /\ addr' = [addr EXCEPT ![c] = T]
  /\ sink' = [sink EXCEPT ![c] = s]
  /\ addpc' = [addpc EXCEPT ![c] = "checked"]
  /\ UNCHANGED <<decVars, regVars, strVars, swapVars, curveVars, evVars, envVars>>

\* add_token, first block: parse the address and test membership under the read lock.
AddTokenCheck(c, T, s) ==
  /\ kind[c] = "none"
  /\ \A d \in Calls : d < c => kind[d] # "none"
  /\ kind' = [kind EXCEPT ![c] = "registry"]
  /\ addr' = [addr EXCEPT ![c] = T]
  /\ sink' = [sink EXCEPT ![c] = s]
  /\ addpc' = [addpc EXCEPT ![c] = IF tokens[T] # 0 THEN "err" ELSE "checked"]
  /\ UNCHANGED <<decVars, regVars, strVars, swapVars, curveVars, evVars, envVars>>

\* an add_token that hands the new watch the handle of an earlier watch of the
\* same address
AddTokenInsertReusesHandle(c) ==
  /\ addpc[c] = "checked"
  /\ tokens' = [tokens EXCEPT ![addr[c]] = c]
  /\ cancelled' = [cancelled EXCEPT ![c] =
                     \E d \in Calls : d # c /\ addr[d] = addr[c] /\ cancelled[d]]
  /\ sup' = [sup EXCEPT ![c] = "select"]
  /\ str' = [str EXCEPT ![c] = "finding"]
  /\ addpc' = [addpc EXCEPT ![c] = "ok"]
  /\ UNCHANGED <<decVars, rm, kind, addr, sink, stok, is_streaming,
                 swapVars, curveVars, evVars, envVars>>

\* add_token, rest: allocate the handle, insert it under the write lock, spawn the
\* supervisor (which creates the SwapStreamer and enters the select!), return Ok.
AddTokenInsert(c) ==
  /\ addpc[c] = "checked"
  /\ tokens' = [tokens EXCEPT ![addr[c]] = c]
  /\ sup' = [sup EXCEPT ![c] = "select"]
  /\ str' = [str EXCEPT ![c] = "finding"]
  /\ addpc' = [addpc EXCEPT ![c] = "ok"]
  /\ UNCHANGED <<decVars, cancelled, rm, kind, addr, sink, stok, is_streaming,
                 swapVars, curveVars, evVars, envVars>>

\* supervisor: the cancelled() branch of the select! wins; the streamer future is dropped.
SupervisorCancelled(c) ==
  /\ sup[c] = "select"
  /\ cancelled[c]
  /\ sup' = [sup EXCEPT ![c] = "cleanup"]
  /\ str' = [str EXCEPT ![c] = "dropped"]
  /\ UNCHANGED <<decVars, regVars, callVars, stok, is_streaming, swapVars, curveVars, evVars, envVars>>

\* a supervisor that exits without removing its entry
SupervisorCleanupKeepsEntry(c) ==
  /\ sup[c] = "cleanup"
  /\ sup' = [sup EXCEPT ![c] = "exited"]
  /\ UNCHANGED <<decVars, regVars, callVars, str, stok, is_streaming,
                 swapVars, curveVars, evVars, envVars>>

\* supervisor: after the select!, take the write lock, remove the address, exit.
SupervisorCleanup(c) ==
  /\ sup[c] = "cleanup"
  /\ tokens' = [tokens EXCEPT ![addr[c]] = 0]
  /\ sup' = [sup EXCEPT ![c] = "exited"]
  /\ UNCHANGED <<decVars, cancelled, rm, callVars, str, stok, is_streaming,
                 swapVars, curveVars, evVars, envVars>>

\* a remove_token that reports the error for every address
RemoveTokenReadAlwaysErr(T) ==
  /\ rm.pc \in {"idle", "ok", "err"}
  /\ rm' = [pc |-> "err", t |-> T, h |-> 0]
  /\ UNCHANGED <<decVars, tokens, cancelled, callVars, strVars, swapVars, curveVars, evVars, envVars>>

\* remove_token, first block: look the handle up under the read lock.
RemoveTokenRead(T) ==
  /\ rm.pc \in {"idle", "ok", "err"}
  /\ rm' = IF tokens[T] = 0 THEN [pc |-> "err", t |-> T, h |-> 0]
                            ELSE [pc |-> "read", t |-> T, h |-> tokens[T]]
  /\ UNCHANGED <<decVars, tokens, cancelled, callVars, strVars, swapVars, curveVars, evVars, envVars>>

\* a remove_token that signals every handle in the table
RemoveTokenCancelAll ==
  /\ rm.pc = "read"
  /\ cancelled' = [c \in Calls |->
                     cancelled[c] \/ c = rm.h \/ (\E T \in Tokens : tokens[T] = c)]
  /\ rm' = [rm EXCEPT !.pc = "ok"]
  /\ UNCHANGED <<decVars, tokens, callVars, strVars, swapVars, curveVars, evVars, envVars>>

\* remove_token, Some(token) arm: signal the handle and return Ok.
RemoveTokenCancel ==
  /\ rm.pc = "read"
  /\ cancelled' = [cancelled EXCEPT ![rm.h] = TRUE]
  /\ rm' = [rm EXCEPT !.pc = "ok"]
  /\ UNCHANGED <<decVars, tokens, callVars, strVars, swapVars, curveVars, evVars, envVars>>

\* a stop_all that signals one handle only
StopAllOne ==
  /\ \E T \in Tokens : tokens[T] # 0 /\ ~cancelled[tokens[T]]
  /\ LET T == CHOOSE U \in Tokens : tokens[U] # 0 /\ ~cancelled[tokens[U]]
     IN  cancelled' = [cancelled EXCEPT ![tokens[T]] = TRUE]
  /\ UNCHANGED <<decVars, tokens, rm, callVars, strVars, swapVars, curveVars, evVars, envVars>>

\* stop_all: under the read lock, signal every handle in the table.
StopAll ==
  /\ \E T \in Tokens : tokens[T] # 0 /\ ~cancelled[tokens[T]]
  /\ cancelled' = [c \in Calls |->
                     cancelled[c] \/ (\E T \in Tokens : tokens[T] = c)]
  /\ UNCHANGED <<decVars, tokens, rm, callVars, strVars, swapVars, curveVars, evVars, envVars>>

\* ---------------------------------------------------------------- SwapStreamer: discovery
\* pools the factories report for token T
PoolsOnChain(T) == IF chain[T] = "dex" THEN Pools ELSE {}

\* the streamer future of call c is still being polled
Polled(c) == kind[c] = "direct" \/ (kind[c] = "registry" /\ sup[c] = "select")

\* one Swap listener task per returned PairInfo (tokio::spawn in the `for pair_info in pairs` loops)
SpawnSwapListeners(c, S) ==
  swapL' = [swapL EXCEPT ![c] = [p \in Pools |-> IF p \in S THEN "subscribing" ELSE @[p]]]

\* a library user calls start_with_migration_callback_and_cancel with a token they keep
DirectStart(c, T, s) ==
  /\ kind[c] = "none"
  /\ \A d \in Calls : d < c => kind[d] # "none"
  /\ kind' = [kind EXCEPT ![c] = "direct"]
  /\ addr' = [addr EXCEPT ![c] = T]
  /\ sink' = [sink EXCEPT ![c] = s]
  /\ str' = [str EXCEPT ![c] = "finding"]
  /\ UNCHANGED <<decVars, regVars, addpc, sup, stok, is_streaming, swapVars, curveVars, evVars, envVars>>

\* the holder of a directly passed cancel_token cancels it
UserCancel(c) ==
  /\ kind[c] = "direct"
  /\ ~stok[c]
  /\ stok' = [stok EXCEPT ![c] = TRUE]
  /\ UNCHANGED <<decVars, regVars, callVars, sup, str, is_streaming, swapVars, curveVars, evVars, envVars>>

\* a discovery that also starts the bonding-curve listeners beside the Swap listeners
FindPairsReturnAlsoCurve(c, S) ==
  /\ str[c] = "finding"
  /\ Polled(c)
  /\ S \subseteq PoolsOnChain(addr[c])
  /\ IF S # {}
       THEN /\ str' = [str EXCEPT ![c] = "dex"]
            /\ is_streaming' = [is_streaming EXCEPT ![c] = TRUE]
            /\ SpawnSwapListeners(c, S)
            /\ xfer' = [xfer EXCEPT ![c] = "subscribing"]
            /\ pcl' = [pcl EXCEPT ![c] = "subscribing"]
            /\ sup' = [sup EXCEPT ![c] = IF kind[c] = "registry" THEN "cleanup" ELSE @]
       ELSE /\ IF kind[c] = "registry" /\ cancelled[c]
                 THEN /\ str' = [str EXCEPT ![c] = "dropped"]
                      /\ sup' = [sup EXCEPT ![c] = "cleanup"]
                 ELSE /\ str' = [str EXCEPT ![c] = "probing"]
                      /\ sup' = sup
            /\ UNCHANGED <<is_streaming, swapL, xfer, pcl>>
  /\ UNCHANGED <<decVars, regVars, callVars, stok, next, hand, chan, evVars, envVars>>

\* find_pairs returns S (the pools that exist, answered the RPC and passed the
\* liquidity gate).  Non-empty: spawn the listeners and return Ok.  Empty: go on
\* to the bonding-curve probe; a supervisor whose handle is already signalled
\* takes the cancelled() branch when the probe's first await is pending.
FindPairsReturn(c, S) ==
  /\ str[c] = "finding"
  /\ Polled(c)
  /\ S \subseteq PoolsOnChain(addr[c])
  /\ IF S # {}
       THEN /\ str' = [str EXCEPT ![c] = "dex"]
            /\ is_streaming' = [is_streaming EXCEPT ![c] = TRUE]
            /\ SpawnSwapListeners(c, S)
            /\ sup' = [sup EXCEPT ![c] = IF kind[c] = "registry" THEN "cleanup" ELSE @]
       ELSE /\ IF kind[c] = "registry" /\ cancelled[c]
                 THEN /\ str' = [str EXCEPT ![c] = "dropped"]
                      /\ sup' = [sup EXCEPT ![c] = "cleanup"]
                 ELSE /\ str' = [str EXCEPT ![c] = "probing"]
                      /\ sup' = sup
            /\ UNCHANGED <<is_streaming, swapL>>
  /\ UNCHANGED <<decVars, regVars, callVars, stok, next, curveVars, evVars, envVars>>

\* a start that reports the failure after having spawned the Transfer listener
ProbeReturnFailedAfterSpawn(c, r) ==
  /\ str[c] = "probing"
  /\ Polled(c)
  /\ IF r = "yes"
       THEN /\ str' = [str EXCEPT ![c] = "curve"]
            /\ is_streaming' = [is_streaming EXCEPT ![c] = TRUE]
            /\ xfer' = [xfer EXCEPT ![c] = "subscribing"]
            /\ pcl' = [pcl EXCEPT ![c] = "subscribing"]
            /\ hand' = [hand EXCEPT ![c] = "waiting"]
       ELSE /\ str' = [str EXCEPT ![c] = "failed"]
            /\ xfer' = [xfer EXCEPT ![c] = "subscribing"]
            /\ UNCHANGED <<is_streaming, pcl, hand>>
  /\ sup' = [sup EXCEPT ![c] = IF kind[c] = "registry" THEN "cleanup" ELSE @]
  /\ UNCHANGED <<decVars, regVars, callVars, stok, swapVars, chan, evVars, envVars>>

\* check_bonding_curve returns r: "yes" (Ok(true)), "no" (Ok(false)) or "err".
\* The answer is the chain's: the token's balance on the launchpad, or its recent
\* transfers, which any holder can make non-zero.
ProbeReturn(c, r) ==
  /\ str[c] = "probing"
  /\ Polled(c)
  /\ IF r = "yes"
       THEN /\ str' = [str EXCEPT ![c] = "curve"]
            /\ is_streaming' = [is_streaming EXCEPT ![c] = TRUE]
            /\ xfer' = [xfer EXCEPT ![c] = "subscribing"]
            /\ pcl' = [pcl EXCEPT ![c] = "subscribing"]
            /\ hand' = [hand EXCEPT ![c] = "waiting"]
       ELSE /\ str' = [str EXCEPT ![c] = "failed"]
            /\ UNCHANGED <<is_streaming, xfer, pcl, hand>>
  /\ sup' = [sup EXCEPT ![c] = IF kind[c] = "registry" THEN "cleanup" ELSE @]
  /\ UNCHANGED <<decVars, regVars, callVars, stok, swapVars, chan, evVars, envVars>>

\* ---------------------------------------------------------------- Swap listener task
\* subscribe_logs answers: Ok -> the stream yields the logs emitted from now on
\* (no from_block in the filter); Err -> the task ends
SwapSubscribeReturn(c, p, ok) ==
  /\ swapL[c][p] = "subscribing"
  /\ swapL' = [swapL EXCEPT ![c][p] = IF ok THEN "listening" ELSE "done"]
  /\ next' = [next EXCEPT ![c][p] = IF ok THEN emitted[addr[c]][p] ELSE @]
  /\ UNCHANGED <<decVars, regVars, callVars, strVars, curveVars, evVars, envVars>>

\* stream.next() yields Some(log): parse it; on Ok call the swap sink, on Err log
\* and go on; a panic inside the parser (an unwrap of a missing block number or
\* transaction hash) unwinds the task
SwapListenerLog(c, p, parsed) ==
  /\ swapL[c][p] = "listening"
  /\ next[c][p] < emitted[addr[c]][p]
  /\ next' = [next EXCEPT ![c][p] = @ + 1]
  /\ swapEv' = [swapEv EXCEPT ![c] = IF parsed = "ok" THEN @ + 1 ELSE @]
  /\ swapL' = [swapL EXCEPT ![c][p] = IF parsed = "panic" THEN "panicked" ELSE @]
  /\ UNCHANGED <<decVars, regVars, callVars, strVars, curveVars, migEv, migLog, curveEv, envVars>>

\* the cancelled() branch of the listener's select!
SwapListenerCancelled(c, p) ==
  /\ swapL[c][p] = "listening"
  /\ stok[c]
  /\ swapL' = [swapL EXCEPT ![c][p] = "done"]
  /\ UNCHANGED <<decVars, regVars, callVars, strVars, next, curveVars, evVars, envVars>>

\* a listener that subscribes again when its stream is closed
SwapStreamEndedResubscribes(c, p) ==
  /\ swapL[c][p] = "listening"
  /\ swapL' = [swapL EXCEPT ![c][p] = "subscribing"]
  /\ UNCHANGED <<decVars, regVars, callVars, strVars, next, curveVars, evVars, envVars>>

\* stream.next() yields None: the RPC closed the subscription
SwapStreamEnded(c, p) ==
  /\ swapL[c][p] = "listening"
  /\ swapL' = [swapL EXCEPT ![c][p] = "ended"]
  /\ UNCHANGED <<decVars, regVars, callVars, strVars, next, curveVars, evVars, envVars>>

\* ---------------------------------------------------------------- bonding-curve Transfer listener
TransferSubscribeReturn(c, ok) ==
  /\ xfer[c] = "subscribing"
  /\ xfer' = [xfer EXCEPT ![c] = IF ok THEN "listening" ELSE "done"]
  /\ UNCHANGED <<decVars, regVars, callVars, strVars, swapVars, pcl, hand, chan, evVars, envVars>>

\* a Transfer log that touches the launchpad: parse it; on Ok(Some(swap)) call the
\* swap sink; a panic inside the parser unwinds the task.  (Logs that are
\* filtered out, give Ok(None) or fail to parse with Err change no state.)
TransferLog(c, parsed) ==
  /\ xfer[c] = "listening"
  /\ IF parsed = "ok"
       THEN /\ curveEv[c] < MaxLogs
            /\ curveEv' = [curveEv EXCEPT ![c] = @ + 1]
            /\ xfer' = xfer
       ELSE /\ xfer' = [xfer EXCEPT ![c] = "panicked"]
            /\ curveEv' = curveEv
  /\ UNCHANGED <<decVars, regVars, callVars, strVars, swapVars, pcl, hand, chan, migEv, migLog, swapEv, envVars>>

TransferCancelled(c) ==
  /\ xfer[c] = "listening"
  /\ stok[c]
  /\ xfer' = [xfer EXCEPT ![c] = "done"]
  /\ UNCHANGED <<decVars, regVars, callVars, strVars, swapVars, pcl, hand, chan, evVars, envVars>>

\* stream.next() yields None
TransferStreamEnded(c) ==
  /\ xfer[c] = "listening"
  /\ xfer' = [xfer EXCEPT ![c] = "ended"]
  /\ UNCHANGED <<decVars, regVars, callVars, strVars, swapVars, pcl, hand, chan, evVars, envVars>>

\* ---------------------------------------------------------------- PairCreated listener
\* a PairCreated listener whose failed subscription takes the Transfer listener down
PairCreatedSubscribeReturnStopsSibling(c, ok) ==
  /\ pcl[c] = "subscribing"
  /\ pcl' = [pcl EXCEPT ![c] = IF ok THEN "listening" ELSE "done"]
  /\ xfer' = [xfer EXCEPT ![c] = IF ok THEN @ ELSE "done"]
  /\ UNCHANGED <<decVars, regVars, callVars, strVars, swapVars, hand, chan, evVars, envVars>>

\* `if let Ok(mut stream) = subscribe_logs(..)`: on Err the task ends (dropping migration_tx)
PairCreatedSubscribeReturn(c, ok) ==
  /\ pcl[c] = "subscribing"
  /\ pcl' = [pcl EXCEPT ![c] = IF ok THEN "listening" ELSE "done"]
  /\ UNCHANGED <<decVars, regVars, callVars, strVars, swapVars, xfer, hand, chan, evVars, envVars>>

\* a PairCreated log naming the watched token in topics[1] or topics[2] is next in
\* the stream.  complete: it carries a transaction hash and a block number; then
\* (tx_hash, block) is sent on the channel and the loop breaks.  Otherwise the
\* log is dropped and the loop goes on.
PairCreatedLog(c, complete) ==
  /\ pcl[c] = "pending"
  /\ IF complete
       THEN /\ chan' = [chan EXCEPT ![c] = 1]
            /\ pcl' = [pcl EXCEPT ![c] = "done"]
       ELSE /\ pcl' = [pcl EXCEPT ![c] = "listening"]
            /\ chan' = chan
  /\ UNCHANGED <<decVars, regVars, callVars, strVars, swapVars, xfer, hand, evVars, envVars>>

PairCreatedCancelled(c) ==
  /\ pcl[c] \in {"listening", "pending"}
  /\ stok[c]
  /\ pcl' = [pcl EXCEPT ![c] = "done"]
  /\ UNCHANGED <<decVars, regVars, callVars, strVars, swapVars, xfer, hand, chan, evVars, envVars>>

\* stream.next() yields None (migration_tx is dropped with the task)
PairCreatedStreamEnded(c) ==
  /\ pcl[c] = "listening"
  /\ pcl' = [pcl EXCEPT ![c] = "ended"]
  /\ UNCHANGED <<decVars, regVars, callVars, strVars, swapVars, xfer, hand, chan, evVars, envVars>>

\* ---------------------------------------------------------------- migration hand-off task
\* migration_rx.recv() yields Some((tx_hash, block_number)): start re-running find_pairs
HandoffRecv(c) ==
  /\ hand[c] = "waiting"
  /\ chan[c] = 1
  /\ chan' = [chan EXCEPT ![c] = 0]
  /\ hand' = [hand EXCEPT ![c] = "finding"]
  /\ UNCHANGED <<decVars, regVars, callVars, strVars, swapVars, xfer, pcl, evVars, envVars>>

\* a hand-off task that does not notice that the sender was dropped
HandoffRecvClosedUnnoticed(c) ==
  /\ hand[c] = "waiting"
  /\ chan[c] = 0
  /\ pcl[c] \in {"done", "ended"}
  /\ UNCHANGED vars

\* migration_rx.recv() yields None: the PairCreated task ended without sending
HandoffRecvClosed(c) ==
  /\ hand[c] = "waiting"
  /\ chan[c] = 0
  /\ pcl[c] \in {"done", "ended"}
  /\ hand' = [hand EXCEPT ![c] = "closed"]
  /\ UNCHANGED <<decVars, regVars, callVars, strVars, swapVars, xfer, pcl, chan, evVars, envVars>>

\* the MigrationEvent built from the (tx_hash, block_number) received on the
\* channel and the pairs found.  The PairCreated listener only sends the log
\* whose token0 or token1 is the watched token, so the log is named by T.
MigrationEvent(T, S) ==
  [ transaction_hash |-> T, block_number |-> T,
    from_platform |-> "FourMemeBondingCurve", to_platform |-> "PancakeSwap",
    pair_addresses |-> S, pair_count |-> Cardinality(S) ]

\* a hand-off whose event counts the pools on chain instead of the pairs found
HandoffFindPairsCountsChain(c, S) ==
  /\ hand[c] = "finding"
  /\ S \subseteq PoolsOnChain(addr[c])
  /\ IF S = {}
       THEN /\ hand' = [hand EXCEPT ![c] = "gaveup"]
            /\ UNCHANGED <<migEv, migLog, swapL>>
       ELSE /\ hand' = [hand EXCEPT ![c] = "spawned"]
            /\ migEv' = [migEv EXCEPT ![c] = IF sink[c] THEN @ + 1 ELSE @]
            /\ migLog' = [migLog EXCEPT ![c] =
                             IF sink[c]
                               THEN Append(@, [MigrationEvent(addr[c], S) EXCEPT
                                                 !.pair_count = Cardinality(Pools) + 1])
                               ELSE @]
            /\ SpawnSwapListeners(c, S)
  /\ UNCHANGED <<decVars, regVars, callVars, strVars, next, xfer, pcl, chan, swapEv, curveEv, envVars>>

\* a hand-off that starts the Swap listeners without calling the migration sink
HandoffFindPairsNoEmit(c, S) ==
  /\ hand[c] = "finding"
  /\ S \subseteq PoolsOnChain(addr[c])
  /\ IF S = {}
       THEN /\ hand' = [hand EXCEPT ![c] = "gaveup"]
            /\ UNCHANGED swapL
       ELSE /\ hand' = [hand EXCEPT ![c] = "spawned"]
            /\ SpawnSwapListeners(c, S)
  /\ UNCHANGED <<decVars, regVars, callVars, strVars, next, xfer, pcl, chan, evVars, envVars>>

\* find_pairs(..).unwrap_or_else(vec![]) returns S.  Empty: warn and return.
\* Otherwise call the migration sink when there is one, then spawn one Swap
\* listener per pair.
HandoffFindPairs(c, S) ==
  /\ hand[c] = "finding"
  /\ S \subseteq PoolsOnChain(addr[c])
  /\ IF S = {}
       THEN /\ hand' = [hand EXCEPT ![c] = "gaveup"]
            /\ UNCHANGED <<migEv, migLog, swapL>>
       ELSE /\ hand' = [hand EXCEPT ![c] = "spawned"]
            /\ migEv' = [migEv EXCEPT ![c] = IF sink[c] THEN @ + 1 ELSE @]
            /\ migLog' = [migLog EXCEPT ![c] =
                             IF sink[c] THEN Append(@, MigrationEvent(addr[c], S)) ELSE @]
            /\ SpawnSwapListeners(c, S)
  /\ UNCHANGED <<decVars, regVars, callVars, strVars, next, xfer, pcl, chan, swapEv, curveEv, envVars>>

\* ---------------------------------------------------------------- the chain
\* the token migrates: the factory emits PairCreated(token, ..) and the pools
\* exist from now on; every attached PairCreated subscription gets the log
Migrate(T) ==
  /\ chain[T] = "curve"
  /\ chain' = [chain EXCEPT ![T] = "dex"]
  /\ pcl' = [c \in Calls |-> IF addr[c] = T /\ pcl[c] = "listening" THEN "pending" ELSE pcl[c]]
  /\ UNCHANGED <<decVars, regVars, callVars, strVars, swapVars, xfer, hand, chan, evVars, emitted>>

\* pool p of token T emits a Swap log.  The logs of a token are counted from its
\* first watch on: earlier ones are history that no subscription yields.
EmitSwapLog(T, p) ==
  /\ chain[T] = "dex"
  /\ \E c \in Calls : addr[c] = T
  /\ emitted[T][p] < MaxLogs
  /\ emitted' = [emitted EXCEPT ![T][p] = @ + 1]
  /\ UNCHANGED <<decVars, regVars, callVars, strVars, swapVars, curveVars, evVars, chain>>

\* ---------------------------------------------------------------- specification
\* the registry API and the supervisor of call c
RegistryStep(c, Sinks) ==
  \/ \E T \in Tokens, s \in Sinks : AddTokenCheck(c, T, s)
  \/ AddTokenInsert(c)
  \/ SupervisorCancelled(c)
  \/ SupervisorCleanup(c)

\* the streamer of call c: discovery and the life cycle of its tasks
StreamerStep(c, Sinks) ==
  \/ \E T \in Tokens, s \in Sinks : DirectStart(c, T, s)
  \/ UserCancel(c)
  \/ \E S \in SUBSET Pools : FindPairsReturn(c, S)
  \/ \E r \in {"yes", "no", "err"} : ProbeReturn(c, r)
  \/ \E p \in Pools, ok \in BOOLEAN : SwapSubscribeReturn(c, p, ok)
  \/ \E p \in Pools : SwapListenerCancelled(c, p)
  \/ \E ok \in BOOLEAN : TransferSubscribeReturn(c, ok)
  \/ TransferCancelled(c)
  \/ \E ok \in BOOLEAN : PairCreatedSubscribeReturn(c, ok)
  \/ PairCreatedCancelled(c)
  \/ HandoffRecvClosed(c)

\* the tasks of call c handling what the node delivers on their streams: a log,
\* or the end of the stream
LogStep(c) ==
  \/ \E p \in Pools : SwapStreamEnded(c, p)
  \/ TransferStreamEnded(c)
  \/ PairCreatedStreamEnded(c)
  \/ \E p \in Pools, parsed \in {"ok", "err", "panic"} : SwapListenerLog(c, p, parsed)
  \/ \E parsed \in {"ok", "panic"} : TransferLog(c, parsed)
  \/ \E complete \in BOOLEAN : PairCreatedLog(c, complete)
  \/ HandoffRecv(c)
  \/ \E S \in SUBSET Pools : HandoffFindPairs(c, S)

RemoveStep ==
  \/ \E T \in Tokens : RemoveTokenRead(T)
  \/ RemoveTokenCancel
  \/ StopAll

ChainStep ==
  \/ \E T \in Tokens : Migrate(T)
  \/ \E T \in Tokens, p \in Pools : EmitSwapLog(T, p)

\* the whole system
Next ==
  \/ \E c \in Calls : RegistryStep(c, BOOLEAN) \/ StreamerStep(c, BOOLEAN) \/ LogStep(c)
  \/ RemoveStep
  \/ ChainStep

Spec == Init /\ [][Next]_vars

\* one streamer (started through the registry or directly) against a live chain
NextStreamer ==
  \/ RegistryStep(1, BOOLEAN) \/ StreamerStep(1, BOOLEAN) \/ LogStep(1)
  \/ RemoveStep
  \/ ChainStep

SpecStreamer == Init /\ [][NextStreamer]_vars

\* the registry with all its calls, while the node delivers no log and closes
\* no stream (so that no migration happens and the migration sink, never
\* called, is left out)
NextRegistry ==
  \/ \E c \in Calls : RegistryStep(c, {FALSE}) \/ StreamerStep(c, {FALSE})
  \/ RemoveStep

SpecRegistry == Init /\ [][NextRegistry]_vars

\* the parsers and the probe applied to one log / one token, under every
\* combination of what the log carries and what the node answers
InitParser ==
  /\ InitRegistry
  /\ inp \in Inputs
  /\ out = NoResult

ParseSwapEvent ==
  /\ out.fn = "none"
  /\ out' = [fn |-> "parse_swap_event", res |-> parse_swap_event(inp)]
  /\ UNCHANGED <<inp, cacheVars, regVars, callVars, strVars, swapVars, curveVars, evVars, envVars>>

ParseBondingCurveEvent ==
  /\ out.fn = "none"
  /\ out' = [fn |-> "parse_bonding_curve_event", res |-> parse_bonding_curve_event(inp)]
  /\ UNCHANGED <<inp, cacheVars, regVars, callVars, strVars, swapVars, curveVars, evVars, envVars>>

CheckBondingCurve ==
  /\ out.fn = "none"
  /\ out' = [fn |-> "check_bonding_curve", res |-> check_bonding_curve(inp)]
  /\ UNCHANGED <<inp, cacheVars, regVars, callVars, strVars, swapVars, curveVars, evVars, envVars>>

NextParser ==
  \/ ParseSwapEvent
  \/ ParseBondingCurveEvent
  \/ CheckBondingCurve

SpecParser == InitParser /\ [][NextParser]_vars
\* find_v3_pairs applied to one token, under every combination of what the V3
\* factory answers for each base token and fee tier
InitTiers ==
  /\ InitRegistry
  /\ inp \in FactoryAnswers
  /\ out = NoResult

FindV3Pairs ==
  /\ out.fn = "none"
  /\ out' = [fn |-> "find_v3_pairs", res |-> find_v3_pairs(inp)]
  /\ UNCHANGED <<inp, cacheVars, regVars, callVars, strVars, swapVars, curveVars, evVars, envVars>>

NextTiers == FindV3Pairs

SpecTiers == InitTiers /\ [][NextTiers]_vars

\* the last stage of find_pairs, whose result find_pairs returns, under every
\* set of candidates and every answer of the liquidity oracle
InitLiquidity ==
  /\ InitRegistry
  /\ inp \in OracleAnswers
  /\ out = NoResult

FilterByLiquidity ==
  /\ out.fn = "none"
  /\ out' = [fn |-> "find_pairs", res |-> filter_by_liquidity(inp.pairs, inp)]
  /\ UNCHANGED <<inp, cacheVars, regVars, callVars, strVars, swapVars, curveVars, evVars, envVars>>

NextLiquidity == FilterByLiquidity

SpecLiquidity == InitLiquidity /\ [][NextLiquidity]_vars
\* parse_swap_event applied to every Swap log a pool subscription can deliver
InitSwapLog ==
  /\ InitRegistry
  /\ inp \in SwapLogs
  /\ out = NoResult

NextSwapLog == ParseSwapEvent

SpecSwapLog == InitSwapLog /\ [][NextSwapLog]_vars

\* the Transfer listener handed every Transfer log of the watched token
InitTransferLog ==
  /\ InitRegistry
  /\ inp \in TransferLogs
  /\ out = NoResult

TransferListenerLog ==
  /\ out.fn = "none"
  /\ out' = [fn |-> "transfer_listener_log", res |-> transfer_listener_log(inp)]
  /\ UNCHANGED <<inp, cacheVars, regVars, callVars, strVars, swapVars, curveVars, evVars, envVars>>

NextTransferLog == TransferListenerLog

SpecTransferLog == InitTransferLog /\ [][NextTransferLog]_vars

InitRecovery ==
  /\ InitRegistry
  /\ inp \in RecoveryInputs
  /\ out = NoResult

RecoverBaseAmount ==
  /\ out.fn = "none"
  /\ out' = LET r == parse_bonding_curve_event_recovering(inp) IN
              [fn |-> "parse_bonding_curve_event", res |-> r, price |-> curve_price(r.trade)]
  /\ UNCHANGED <<inp, cacheVars, regVars, callVars, strVars, swapVars, curveVars, evVars, envVars>>

NextRecovery == RecoverBaseAmount

SpecRecovery == InitRecovery /\ [][NextRecovery]_vars

\* ---------------------------------------------------------------- StreamerRunner
\* what a StreamerBuilder can hold when start is called: token_address set or
\* not, and auto_detect() / platform(..), each of which resets the other
Builders ==
  {[token_address |-> t, auto_detect |-> m = "auto_detect",
    platform |-> IF m = "auto_detect" THEN "none" ELSE m] :
      t \in BOOLEAN,
      m \in {"none", "auto_detect", "FourMemeBondingCurve", "PancakeSwap"}}

InitRunner ==
  /\ InitRegistry
  /\ inp \in Builders
  /\ out = NoResult

\* StreamerRunner::start: the token address is required; with auto_detect, with
\* Platform::FourMemeBondingCurve and with Platform::PancakeSwap the same
\* start_with_migration_callback is awaited (its cancellation token is created
\* there and never signalled); with neither, Err
RunnerStart(c, T, s) ==
  /\ out.fn = "none"
  /\ kind[c] = "none"
  /\ IF inp.token_address /\ (inp.auto_detect \/ inp.platform # "none")
       THEN /\ kind' = [kind EXCEPT ![c] = "direct"]
            /\ addr' = [addr EXCEPT ![c] = T]
            /\ sink' = [sink EXCEPT ![c] = s]
            /\ str' = [str EXCEPT ![c] = "finding"]
            /\ out' = [fn |-> "start", res |-> Returned("awaiting")]
       ELSE /\ out' = [fn |-> "start", res |-> Returned("err")]
            /\ UNCHANGED <<kind, addr, sink, str>>
  /\ UNCHANGED <<inp, cacheVars, regVars, addpc, sup, stok, is_streaming, swapVars,
                 curveVars, evVars, envVars>>

\* one StreamerRunner against a live chain
NextRunner ==
  \/ \E T \in Tokens, s \in BOOLEAN : RunnerStart(1, T, s)
  \/ \E S \in SUBSET Pools : FindPairsReturn(1, S)
  \/ \E r \in {"yes", "no", "err"} : ProbeReturn(1, r)
  \/ \E p \in Pools, ok \in BOOLEAN : SwapSubscribeReturn(1, p, ok)
  \/ \E ok \in BOOLEAN : TransferSubscribeReturn(1, ok)
  \/ \E ok \in BOOLEAN : PairCreatedSubscribeReturn(1, ok)
  \/ HandoffRecvClosed(1)
  \/ LogStep(1)
  \/ ChainStep

SpecRunner == InitRunner /\ [][NextRunner]_vars

\* ---------------------------------------------------------------- SwapStreamer::stop and a second start
\* events delivered so far to the swap sink of call c
Delivered(c) == swapEv[c] + curveEv[c]

\* start has returned to the owner of the streamer (start and stop take &mut self)
StartReturned(c) == kind[c] = "direct" /\ str[c] \in {"dex", "curve", "failed"}

\* a stop that also signals the cancellation token of the tasks
StopCancels(c) ==
  /\ StartReturned(c)
  /\ is_streaming' = [is_streaming EXCEPT ![c] = FALSE]
  /\ stok' = [stok EXCEPT ![c] = TRUE]
  /\ out' = [fn |-> "stop", res |-> Returned("ok"), events |-> Delivered(c)]
  /\ UNCHANGED <<inp, cacheVars, regVars, callVars, sup, str, swapVars,
                 curveVars, evVars, envVars>>

\* stop(): if self.is_streaming { self.is_streaming = false }.  `out` keeps what
\* had been delivered when stop returned.
Stop(c) ==
  /\ StartReturned(c)
  /\ is_streaming' = [is_streaming EXCEPT ![c] = FALSE]
  /\ out' = [fn |-> "stop", res |-> Returned("ok"), events |-> Delivered(c)]
  /\ UNCHANGED <<inp, cacheVars, regVars, callVars, sup, str, stok, swapVars,
                 curveVars, evVars, envVars>>

\* start on a streamer that was started before.  Flag set: warn, return Ok(()).
\* Flag clear: discovery runs again; the model follows one generation of tasks
\* per streamer, so this branch is taken once the earlier tasks are gone.
StartAgain(c) ==
  /\ StartReturned(c)
  /\ IF is_streaming[c]
       THEN /\ out' = [fn |-> "start", res |-> Returned("ok"), events |-> Delivered(c)]
            /\ UNCHANGED str
       ELSE /\ ~ListenerAlive(c) /\ ~HandAlive(c)
            /\ str' = [str EXCEPT ![c] = "finding"]
            /\ out' = [fn |-> "start", res |-> Returned("awaiting"), events |-> Delivered(c)]
  /\ UNCHANGED <<inp, cacheVars, regVars, callVars, sup, stok, is_streaming, swapVars,
                 curveVars, evVars, envVars>>

\* one directly started streamer whose owner may stop it and start it again
NextStop ==
  \/ StreamerStep(1, BOOLEAN) \/ LogStep(1)
  \/ ChainStep
  \/ Stop(1)
  \/ StartAgain(1)

SpecStop == Init /\ [][NextStop]_vars

\* ---------------------------------------------------------------- TokenInfoCache
\* get_token_info calls of caller g still in flight on cache k for address T
InFlight(k, T) == {g \in Callers : gti[g].pc = "fetch" /\ gti[g].k = k /\ gti[g].t = T}

\* caller g, get_token_info(T) on cache k, the address is in the cache: the
\* stored metadata is returned
GetTokenInfoHit(g, k, T) ==
  /\ gti[g].pc = "idle"
  /\ Len(rets[k][T]) + Cardinality(InFlight(k, T)) < MaxInfoCalls
  /\ cache[k][T] # NoMeta
  /\ rets' = [rets EXCEPT ![k][T] = Append(@, cache[k][T])]
  /\ UNCHANGED <<inp, out, cache, gti, fetches, regVars, callVars, strVars,
                 swapVars, curveVars, evVars, envVars>>

\* caller g, get_token_info(T) on cache k, the address is not in the cache: the
\* read lock is given back and the contract is asked
GetTokenInfoMiss(g, k, T) ==
  /\ gti[g].pc = "idle"
  /\ Len(rets[k][T]) + Cardinality(InFlight(k, T)) < MaxInfoCalls
  /\ cache[k][T] = NoMeta
  /\ gti' = [gti EXCEPT ![g] = [pc |-> "fetch", t |-> T, k |-> k]]
  /\ UNCHANGED <<inp, out, cache, fetches, rets, regVars, callVars, strVars,
                 swapVars, curveVars, evVars, envVars>>

\* a fetch that returns the metadata without storing it
GetTokenInfoFetchNoStore(g, n, s, d) ==
  /\ gti[g].pc = "fetch"
  /\ fetches' = [fetches EXCEPT ![gti[g].k][gti[g].t] = @ + 1]
  /\ rets' = [rets EXCEPT ![gti[g].k][gti[g].t] = Append(@, Metadata(n, s, d))]
  /\ gti' = [gti EXCEPT ![g] = NoLookup]
  /\ UNCHANGED <<inp, out, cache, regVars, callVars, strVars,
                 swapVars, curveVars, evVars, envVars>>

\* name(), symbol(), decimals() answered or failed (n, s, d); the metadata is
\* inserted under the write lock, whatever the map holds by now, and returned
GetTokenInfoFetch(g, n, s, d) ==
  /\ gti[g].pc = "fetch"
  /\ fetches' = [fetches EXCEPT ![gti[g].k][gti[g].t] = @ + 1]
  /\ cache' = [cache EXCEPT ![gti[g].k][gti[g].t] = Metadata(n, s, d)]
  /\ rets' = [rets EXCEPT ![gti[g].k][gti[g].t] = Append(@, Metadata(n, s, d))]
  /\ gti' = [gti EXCEPT ![g] = NoLookup]
  /\ UNCHANGED <<inp, out, regVars, callVars, strVars,
                 swapVars, curveVars, evVars, envVars>>

\* caller g working on cache k
CacheStep(g, k) ==
  \/ \E T \in Tokens : GetTokenInfoHit(g, k, T)
  \/ \E T \in Tokens : GetTokenInfoMiss(g, k, T)
  \/ \E n, s, d \in {"ok", "err"} : GetTokenInfoFetch(g, n, s, d)

\* one task making its calls one after the other on its cache
NextCache == CacheStep(1, 1)

SpecCache == Init /\ [][NextCache]_vars

\* the calls of several tasks on one and the same cache, in any interleaving
NextSharedCache == \E g \in Callers : CacheStep(g, 1)

SpecSharedCache == Init /\ [][NextSharedCache]_vars

\* the listener tasks of a process: each holds the parser clone it was
\* spawned with, and so a cache of its own
NextClones == \E g \in Callers : CacheStep(g, g)

SpecClones == Init /\ [][NextClones]_vars




\* The runtime polls a task whose branch is ready and lock acquisitions are
\* granted: a supervisor whose handle is signalled, or whose select! is over,
\* goes on.
SupervisorFairness(C) ==
  \A c \in C : WF_vars(SupervisorCancelled(c)) /\ WF_vars(SupervisorCleanup(c))

\* A listener whose cancel_token is cancelled is polled, and the node answers a
\* subscription request.  Nothing is assumed of the calls a user makes, of the
\* logs the chain emits or of the node closing a stream.
ListenerFairness(C) ==
  \A c \in C :
    /\ WF_vars(TransferCancelled(c))
    /\ WF_vars(PairCreatedCancelled(c))
    /\ WF_vars(\E ok \in BOOLEAN : TransferSubscribeReturn(c, ok))
    /\ WF_vars(\E ok \in BOOLEAN : PairCreatedSubscribeReturn(c, ok))
    /\ \A p \in Pools :
         /\ WF_vars(SwapListenerCancelled(c, p))
         /\ WF_vars(\E ok \in BOOLEAN : SwapSubscribeReturn(c, p, ok))

FairStreamer == SpecStreamer /\ SupervisorFairness({1}) /\ ListenerFairness({1})

FairRegistry == SpecRegistry /\ SupervisorFairness(Calls)
\* The hand-off task is polled when its channel has a message or lost its
\* sender, and the requests of find_pairs are answered (or time out).
HandoffFairness(C) ==
  \A c \in C :
    /\ WF_vars(HandoffRecv(c))
    /\ WF_vars(HandoffRecvClosed(c))
    /\ WF_vars(\E S \in SUBSET Pools : HandoffFindPairs(c, S))

FairDirect == SpecStreamer /\ ListenerFairness({1}) /\ HandoffFairness({1})


TypeOK ==
  /\ tokens \in [Tokens -> 0..MaxCalls]
  /\ cancelled \in [Calls -> BOOLEAN]
  /\ kind \in [Calls -> {"none", "registry", "direct"}]
  /\ sup \in [Calls -> {"none", "select", "cleanup", "exited"}]
  /\ str \in [Calls -> {"none", "finding", "probing", "dex", "curve", "failed", "dropped"}]
  /\ chan \in [Calls -> 0..1]
  /\ \A c \in Calls : Len(migLog[c]) = migEv[c]
  /\ \A c \in Calls, p \in Pools : next[c][p] \in 0..MaxLogs

\* ---------------------------------------------------------------- properties
\* add_token call c returned Ok and neither remove_token nor stop_all signalled its handle
Watching(c) == addpc[c] = "ok" /\ ~cancelled[c]
\* the streamer of call c started on the bonding curve
CurveStart(c) == str[c] = "curve"

\* C1: once the registry handle of an added token is signalled, every
\* subscription task spawned by that token's streamer eventually terminates.
C1_CancellationReachesSubscriptions ==
  \A c \in Calls : (kind[c] = "registry" /\ cancelled[c]) ~> ~ListenerAlive(c)

\* C2: when the supervisor spawned by add_token has exited, no subscription task
\* of its streamer is alive.
C2_NoTaskOutlivesSupervisor ==
  \A c \in Calls : sup[c] = "exited" => ~ListenerAlive(c)

\* C3: after a successful add_token(T) with no remove_token(T) or stop_all,
\* is_monitoring(T) is true, also once the streamer has finished discovery and
\* started its subscriptions.
C3_MonitoredUntilRemoved ==
  \A c \in Calls :
    (Watching(c) /\ str[c] \in {"finding", "probing", "dex", "curve"})
      => is_monitoring(addr[c])

\* C4 as claimed: for a token that starts on the bonding curve, no PancakeSwap
\* SwapEvent is delivered until a MigrationEvent has been delivered.
C4_MigrationBeforeDexSwap ==
  \A c \in Calls : (CurveStart(c) /\ swapEv[c] > 0) => migEv[c] > 0

\* C4 as amended: with a migration sink, the MigrationEvent is delivered before
\* any PancakeSwap SwapEvent (indeed before any Swap listener is spawned);
\* without one, no MigrationEvent is delivered at all.
C4_MigrationBeforeDexSwapWithSink ==
  \A c \in Calls :
    /\ (CurveStart(c) /\ sink[c] /\ (swapEv[c] > 0 \/ \E p \in Pools : swapL[c][p] # "none"))
         => migEv[c] = 1
    /\ ~sink[c] => migEv[c] = 0

C4_Witness ==
  \E c \in Calls : CurveStart(c) /\ sink[c] /\ swapEv[c] > 0 /\ migEv[c] = 1

\* C5: once a PairCreated log for T has reached the listener of an uncancelled
\* curve streamer, T is never left with migration detection stopped and no DEX
\* subscription started.
C5_MigrationReachesDex ==
  \A c \in Calls :
    (CurveStart(c) /\ ~stok[c] /\ pcl[c] = "done" /\ hand[c] \in {"gaveup", "spawned"})
      => \E p \in Pools : swapL[c][p] # "none"

\* C6: no Swap log of a newly created pool is lost across the hand-off: when a
\* post-migration subscription attaches, its stream starts at the pool's first
\* log, so that every log emitted since PairCreated is still to be delivered.
C6_NoSwapLogLost ==
  [][\A c \in Calls, p \in Pools :
       (CurveStart(c) /\ swapL[c][p] = "subscribing" /\ swapL'[c][p] = "listening")
         => next'[c][p] = 0]_vars

\* C7: at most one supervisor task per address is alive at any time.
C7_OneSupervisorPerAddress ==
  \A T \in Tokens : Cardinality({c \in LiveSupervisors : addr[c] = T}) <= 1

\* C8: token_count() equals the number of live per-token supervisor tasks.
C8_CountIsLiveSupervisors ==
  token_count = Cardinality(LiveSupervisors)

\* C9: no entry is visible after the supervisor spawned for it has exited, and
\* an entry is removed only by the supervisor of the add_token call that
\* inserted it.
C9_EntryRemovedByOwnSupervisor ==
  /\ [](\A c \in Calls : sup[c] = "exited" => tokens[addr[c]] # c)
  /\ [][\A T \in Tokens :
          (tokens[T] # 0 /\ tokens'[T] = 0)
            => (sup[tokens[T]] = "cleanup" /\ sup'[tokens[T]] = "exited")]_vars

\* C10: after remove_token(T) returned Ok for the handle of call c, the
\* supervisor of c eventually exits and stays exited; at its exit
\* is_monitoring(T) is false, and T becomes visible again only by the insertion
\* of a successful add_token(T).
C10_RemoveEventuallyUnregisters ==
  /\ \A c \in Calls : (rm.pc = "ok" /\ rm.h = c) ~> (sup[c] = "exited")
  /\ [][\A c \in Calls :
          (sup[c] # "exited" /\ sup'[c] = "exited") => ~is_monitoring(addr[c])']_vars
  /\ [][\A c \in Calls : sup[c] = "exited" => sup'[c] = "exited"]_vars
  /\ [][\A T \in Tokens :
          (tokens[T] = 0 /\ tokens'[T] # 0)
            => (addpc[tokens'[T]] = "checked" /\ addpc'[tokens'[T]] = "ok")]_vars

C10_Witness ==
  /\ rm.pc = "ok"
  /\ str[rm.h] = "dropped"
  /\ sup[rm.h] = "exited"
  /\ ~is_monitoring(addr[rm.h])

\* C11: add_token(T) for an address that is in the table returns the error and
\* changes nothing: the table and every handle are as before, and the failed
\* call never owns a handle, an entry or a supervisor.
C11_AddRegisteredFails ==
  /\ [][\A c \in Calls :
          (addpc[c] = "idle" /\ addpc'[c] # "idle" /\ tokens[addr'[c]] # 0)
            => /\ addpc'[c] = "err"
               /\ tokens' = tokens /\ cancelled' = cancelled
               /\ sup' = sup /\ str' = str]_vars
  /\ [](\A c \in Calls :
          addpc[c] = "err"
            => /\ sup[c] = "none" /\ str[c] = "none" /\ ~cancelled[c]
               /\ \A T \in Tokens : tokens[T] # c)

C11_Witness ==
  \E c \in Calls :
    /\ addpc[c] = "err"
    /\ tokens[addr[c]] # 0
    /\ sup[tokens[addr[c]]] = "select"

\* C12: remove_token(T) for an address that is not in the table returns the
\* error, signals no handle and leaves the table as it is; for an address in
\* the table it signals exactly the handle stored for T and returns Ok.
C12_RemoveUnknownFails ==
  [][/\ (rm.pc # "read" /\ rm' # rm)
          => /\ rm'.pc = (IF tokens[rm'.t] = 0 THEN "err" ELSE "read")
             /\ rm'.pc = "read" => rm'.h = tokens[rm'.t]
             /\ tokens' = tokens /\ cancelled' = cancelled
     /\ (rm.pc = "read" /\ rm' # rm)
          => /\ rm'.pc = "ok"
             /\ addr[rm.h] = rm.t
             /\ cancelled' = [cancelled EXCEPT ![rm.h] = TRUE]
             /\ tokens' = tokens]_vars

C12_Witness ==
  /\ rm.pc = "err"
  /\ ~is_monitoring(rm.t)
  /\ \E T \in Tokens : is_monitoring(T) /\ ~cancelled[tokens[T]]

\* C13: remove_token(A) leaves every token B # A untouched: neither of its two
\* steps, nor a step of the supervisor of a call on A, changes the handle, the
\* entry, the supervisor, the streamer or the tasks of a call on B.
Untouched(d) ==
  /\ cancelled'[d] = cancelled[d]
  /\ tokens'[addr[d]] = tokens[addr[d]]
  /\ sup'[d] = sup[d] /\ str'[d] = str[d]
  /\ swapL'[d] = swapL[d] /\ xfer'[d] = xfer[d] /\ pcl'[d] = pcl[d] /\ hand'[d] = hand[d]

C13_CancellationIsolation ==
  [][\A d \in Calls :
       kind[d] = "registry" =>
         /\ (rm' # rm /\ addr[d] # rm'.t) => Untouched(d)
         /\ \A c \in Calls :
              (kind[c] = "registry" /\ sup'[c] # sup[c] /\ addr[c] # addr[d]) => Untouched(d)]_vars

C13_Witness ==
  /\ rm.pc = "ok"
  /\ cancelled[rm.h]
  /\ \E d \in Calls :
       /\ kind[d] = "registry" /\ addr[d] # rm.t
       /\ tokens[addr[d]] = d /\ sup[d] = "select" /\ ~cancelled[d]

\* C14: stop_all signals the handle of every entry of the table, and once every
\* entry is signalled and no add_token is left to run, the table eventually
\* is empty.
NoMoreAdds == \A c \in Calls : kind[c] # "none" /\ addpc[c] # "checked"
AllSignalled == \A T \in Tokens : tokens[T] # 0 => cancelled[tokens[T]]

C14_StopAllSettlesEmpty ==
  /\ [][(cancelled' # cancelled /\ rm' = rm)
          => \A T \in Tokens : tokens[T] # 0 => cancelled'[tokens[T]]]_vars
  /\ (NoMoreAdds /\ AllSignalled) ~> (token_count = 0)

C14_Witness ==
  /\ \A c \in Calls : kind[c] = "registry" /\ addpc[c] = "ok" /\ cancelled[c]
                       /\ str[c] = "dropped" /\ sup[c] = "exited"
  /\ \E c, d \in Calls : addr[c] # addr[d]
  /\ rm.pc = "ok"
  /\ token_count = 0

\* C15: when discovery finds no pool and the probe does not report residency,
\* start returns the error with no task spawned and is_streaming false; a
\* supervisor whose streamer failed goes on to remove the entry and exits.
C15_DiscoveryEmptyIsTerminal ==
  /\ [](\A c \in Calls :
          str[c] = "failed"
            => /\ ~is_streaming[c]
               /\ \A p \in Pools : swapL[c][p] = "none"
               /\ xfer[c] = "none" /\ pcl[c] = "none" /\ hand[c] = "none"
               /\ kind[c] = "registry" => sup[c] \in {"cleanup", "exited"})
  /\ \A c \in Calls :
       (kind[c] = "registry" /\ str[c] = "failed")
         ~> (sup[c] = "exited" /\ ~is_monitoring(addr[c]))

C15_Witness ==
  \E c \in Calls :
    /\ kind[c] = "registry" /\ str[c] = "failed"
    /\ sup[c] = "exited" /\ ~is_monitoring(addr[c])

\* C16: a log whose decoding fails is skipped and the task stays on its stream:
\* a Swap listener that takes a log without delivering an event is still
\* listening, and the Transfer listener never dies on a log.
C16_DecodeFailureKeepsSubscription ==
  [][/\ \A c \in Calls, p \in Pools :
          (swapL[c][p] = "listening" /\ next'[c][p] = next[c][p] + 1 /\ swapEv'[c] = swapEv[c])
            => swapL'[c][p] = "listening"
     /\ \A c \in Calls : xfer[c] = "listening" => xfer'[c] # "panicked"]_vars

\* C17: a listening task leaves its loop only by exiting, a task that exited
\* on a closed stream stays exited (no reconnect), and once a stream of a
\* registry-started token was closed the supervisor of that token eventually
\* has exited with the entry removed.
StreamEnded(c) ==
  \/ \E p \in Pools : swapL[c][p] = "ended"
  \/ xfer[c] = "ended"
  \/ pcl[c] = "ended"

C17_StreamEndedExits ==
  /\ [][\A c \in Calls :
          /\ \A p \in Pools :
               /\ (swapL[c][p] = "listening" /\ swapL'[c][p] # "listening")
                    => swapL'[c][p] \in {"done", "ended", "panicked"}
               /\ swapL[c][p] = "ended" => swapL'[c][p] = "ended"
          /\ xfer[c] = "ended" => xfer'[c] = "ended"
          /\ pcl[c] = "ended" => pcl'[c] = "ended"]_vars
  /\ \A c \in Calls :
       (kind[c] = "registry" /\ StreamEnded(c))
         ~> (sup[c] = "exited" /\ ~is_monitoring(addr[c]))

C17_Witness ==
  \E c \in Calls, p \in Pools :
    /\ kind[c] = "registry" /\ swapL[c][p] = "ended"
    /\ sup[c] = "exited" /\ ~is_monitoring(addr[c])

\* C18: every SwapEvent a parser returns has exactly one of pair_address and
\* bonding_curve_address; pair_address iff the platform is PancakeSwap,
\* bonding_curve_address iff it is FourMemeBondingCurve.
C18_ExactlyOneVenue ==
  out.res.kind = "ok"
    => /\ (out.res.pair_address = "some") # (out.res.bonding_curve_address = "some")
       /\ (out.res.pair_address = "some") <=> (out.res.platform = "PancakeSwap")
       /\ (out.res.bonding_curve_address = "some") <=> (out.res.platform = "FourMemeBondingCurve")

C18_Witness ==
  /\ out.fn = "parse_swap_event"
  /\ out.res.kind = "ok" /\ out.res.platform = "PancakeSwap"
  /\ out.res.pair_address = "some" /\ out.res.bonding_curve_address = "none"

\* C19: when the block-header fetch fails for a log that decodes otherwise, the
\* parser still returns the SwapEvent, with timestamp None.
Decodable(i) ==
  /\ i.decode = "ok" /\ i.block_number /\ i.transaction_hash
  /\ out.fn = "parse_bonding_curve_event" => (i.side # "other" /\ i.tx = "ok")

C19_TimestampFailureKeepsEvent ==
  (out.fn \in {"parse_swap_event", "parse_bonding_curve_event"}
     /\ Decodable(inp) /\ inp.get_block = "err")
    => (out.res.kind = "ok" /\ out.res.timestamp = "none")

\* C20: the probe never returns an error: it answers true or false, and false
\* when its first request (the block number) fails.
C20_ProbeNeverErrs ==
  out.fn = "check_bonding_curve"
    => /\ out.res.kind \in {"yes", "no"}
       /\ inp.get_block_number = "err" => out.res.kind = "no"


\* C21: every pair find_pairs returns either has an oracle-reported liquidity of
\* at least 5,000 USD or has no report (the oracle was unreachable, its answer
\* unusable, or it lists no figure for the pair); a candidate reported below
\* 5,000 is never returned and a candidate absent from the response is returned.
Reported(p) == inp.oracle = "ok" /\ inp.entry[p] = "listed"
C21_LiquidityGate ==
  out.fn = "find_pairs" =>
    /\ \A p \in out.res : Reported(p) => inp.liquidity[p] >= MIN_LIQUIDITY_USD
    /\ \A p \in inp.pairs :
         /\ (Reported(p) /\ inp.liquidity[p] < MIN_LIQUIDITY_USD) => p \notin out.res
         /\ (inp.oracle = "ok" /\ inp.entry[p] = "missing") => p \in out.res
C21_Witness ==
  /\ out.fn = "find_pairs"
  /\ \E p, q \in inp.pairs :
       /\ Reported(p) /\ inp.liquidity[p] = MIN_LIQUIDITY_USD - 1 /\ p \notin out.res
       /\ inp.oracle = "ok" /\ inp.entry[q] = "missing" /\ q \in out.res

\* C22: a pool with zero liquidity is never in the result of find_pairs,
\* whatever the oracle call gave.
C22_ZeroLiquidityFiltered ==
  out.fn = "find_pairs" => \A p \in out.res : inp.liquidity[p] > 0

\* C23: for each base token at most one V3 pool is kept, and a kept pool is the
\* first tier in scan order whose pool exists, also when the call for an
\* earlier tier failed.
C23_FirstNonZeroTier ==
  out.fn = "find_v3_pairs" =>
    \A b \in Bases :
      /\ Cardinality({t \in Tiers : <<b, t>> \in out.res}) <= 1
      /\ \A t \in Tiers : <<b, t>> \in out.res =>
           /\ PoolExists(inp.getPool[b][t])
           /\ \A u \in 1..(t - 1) : ~PoolExists(inp.getPool[b][u])


\* C24: a well-formed V3 Swap log received on a V3 pool subscription is decoded
\* into a SwapEvent by the signed amounts: Sell when the watched token's amount
\* is positive, Buy when it is negative, with the absolute values as amounts.
WellFormed(i) ==
  /\ i.decode = "ok" /\ i.block_number /\ i.transaction_hash
  /\ i.tx = "ok" /\ i.get_block # "err"
Abs(n) == IF n < 0 THEN 0 - n ELSE n
WatchedAmount(i) == IF i.watched = "token0" THEN i.amount0 ELSE i.amount1
OtherAmount(i) == IF i.watched = "token0" THEN i.amount1 ELSE i.amount0
C24_V3DecodedBySignedAmounts ==
  (out.fn = "parse_swap_event" /\ inp.is_v3 /\ WellFormed(inp)
     /\ WatchedAmount(inp) # 0) =>
    /\ out.res.kind = "ok"
    /\ out.res.trade =
         Trade(IF WatchedAmount(inp) > 0 THEN "Sell" ELSE "Buy",
               Abs(WatchedAmount(inp)), Abs(OtherAmount(inp)))

\* C25: for a V2 Swap log and either watched side, the event is a Buy iff
\* amount_out on the watched side is positive, with that amount_out as token
\* amount and the other side's amount_in as base amount; else it is a Sell with
\* the watched side's amount_in and the other side's amount_out.
WatchedOut(i) == IF i.watched = "token0" THEN i.amount0_out ELSE i.amount1_out
WatchedIn(i) == IF i.watched = "token0" THEN i.amount0_in ELSE i.amount1_in
OtherOut(i) == IF i.watched = "token0" THEN i.amount1_out ELSE i.amount0_out
OtherIn(i) == IF i.watched = "token0" THEN i.amount1_in ELSE i.amount0_in
C25_V2Decoding ==
  (out.fn = "parse_swap_event" /\ ~inp.is_v3 /\ WellFormed(inp)) =>
    /\ out.res.kind = "ok"
    /\ out.res.trade.trade_type \in {"Buy", "Sell"}
    /\ out.res.trade.trade_type = "Buy" <=> WatchedOut(inp) > 0
    /\ out.res.trade.trade_type = "Buy" =>
         out.res.trade = Trade("Buy", WatchedOut(inp), OtherIn(inp))
    /\ out.res.trade.trade_type = "Sell" =>
         out.res.trade = Trade("Sell", WatchedIn(inp), OtherOut(inp))
C25_Witness ==
  /\ out.fn = "parse_swap_event" /\ ~inp.is_v3 /\ WellFormed(inp)
  /\ inp.watched = "token1" /\ inp.amount1_out = 0 /\ inp.amount1_in = MaxAmount
  /\ inp.amount0_out = 1 /\ inp.amount0_in > 0
  /\ out.res.trade = Trade("Sell", MaxAmount, 1)

\* C26: a Transfer log of the watched token gives a Buy event when it comes
\* from the launchpad, a Sell event when it goes to the launchpad, and no event
\* when neither end is the launchpad or the log has fewer than three topics;
\* the token amount is the Transfer value.
C26_CurveClassification ==
  out.fn = "transfer_listener_log" =>
    /\ (inp.topics < 3 \/ inp.side = "other") => out.res.kind = "skip"
    /\ (inp.topics >= 3 /\ inp.side # "other" /\ WellFormed(inp)) =>
         /\ out.res.kind = "ok"
         /\ out.res.trade.token_amount = inp.value
         /\ inp.side \in {"from_curve", "both"} => out.res.trade.trade_type = "Buy"
         /\ inp.side = "to_curve" => out.res.trade.trade_type = "Sell"
C26_Witness ==
  /\ out.fn = "transfer_listener_log"
  /\ inp.topics = 3 /\ inp.side = "to_curve" /\ WellFormed(inp)
  /\ inp.value = MaxAmount
  /\ out.res.kind = "ok" /\ out.res.trade.trade_type = "Sell"
  /\ out.res.trade.token_amount = MaxAmount


\* C27: successive get_token_info calls for one address issue exactly one set of
\* contract calls, and every later call returns the metadata the first call
\* returned, also when that metadata holds defaults.
C27_CacheCorrectness ==
  \A T \in Tokens :
    /\ fetches[1][T] <= 1
    /\ Len(rets[1][T]) >= 1 => fetches[1][T] = 1
    /\ \A i \in 1..Len(rets[1][T]) : rets[1][T][i] = rets[1][T][1]
C27_Witness ==
  \E T \in Tokens :
    /\ Len(rets[1][T]) = 2 /\ fetches[1][T] = 1
    /\ rets[1][T][1].name = "Unknown" /\ rets[1][T][1].decimals = "decimals"
    /\ rets[1][T][2] = rets[1][T][1]


\* C28: once T was removed and the supervisor of every earlier watch of T has
\* exited, add_token(T) passes the membership test, stores a fresh handle that
\* is not signalled and spawns a supervisor that starts discovery; the new
\* handle is signalled only by a remove_token or stop_all that read it, and the
\* new entry is removed only by the new supervisor.
Removed(d, T) ==
  kind[d] = "registry" /\ addr[d] = T /\ cancelled[d] /\ sup[d] = "exited"
OthersGone(c, T) ==
  \A e \in Calls \ {c} :
    (kind[e] = "registry" /\ addr[e] = T) => (sup[e] = "exited" \/ addpc[e] = "err")
ReAdded(c) ==
  /\ kind[c] = "registry"
  /\ \E d \in Calls \ {c} : Removed(d, addr[c])
  /\ OthersGone(c, addr[c])
C28_RetryByReAdding ==
  /\ [][\A c \in Calls : \A T \in Tokens :
          (addpc[c] = "idle" /\ addpc'[c] # "idle" /\ addr'[c] = T
             /\ (\E d \in Calls \ {c} : Removed(d, T)) /\ OthersGone(c, T))
            => addpc'[c] = "checked"]_vars
  /\ [][\A c \in Calls :
          (ReAdded(c) /\ addpc[c] = "checked" /\ addpc'[c] # "checked")
            => /\ addpc'[c] = "ok" /\ ~cancelled'[c] /\ tokens'[addr[c]] = c
               /\ sup'[c] = "select" /\ str'[c] = "finding"]_vars
  /\ [][\A c \in Calls :
          (ReAdded(c) /\ addpc[c] = "ok") =>
            /\ (cancelled'[c] /\ ~cancelled[c]) => tokens[addr[c]] = c \/ rm.h = c
            /\ (tokens[addr[c]] = c /\ tokens'[addr[c]] # c) => sup[c] = "cleanup"]_vars
C28_Witness ==
  \E c \in Calls :
    /\ ReAdded(c) /\ addpc[c] = "ok"
    /\ tokens[addr[c]] = c /\ ~cancelled[c]
    /\ sup[c] = "select" /\ str[c] = "probing"


\* C29: for a directly started streamer, once the supplied cancellation token is
\* cancelled every task the call spawned (Swap listeners, Transfer listener,
\* PairCreated listener, hand-off task, post-migration Swap listeners)
\* eventually has terminated for good, in whichever state the cancellation came.
TasksDone(c) == ~ListenerAlive(c) /\ ~HandAlive(c)
C29_DirectCancellationTerminates ==
  \A c \in {1} : [](kind[c] = "direct" /\ stok[c] => <>[]TasksDone(c))
C29_Witness ==
  \E c \in {1} :
    /\ kind[c] = "direct" /\ stok[c] /\ TasksDone(c)
    /\ hand[c] = "spawned" /\ xfer[c] = "done" /\ pcl[c] = "done"
    /\ \E p \in Pools : swapL[c][p] = "done"


\* C30: once the Swap subscriptions on the new pools are attached after a
\* migration, no further FourMemeBondingCurve event is delivered for the token
\* (the Transfer listener stops at that point).
DexAttached(c) ==
  /\ hand[c] = "spawned"
  /\ \A p \in Pools : swapL[c][p] # "subscribing"
  /\ \E p \in Pools : swapL[c][p] = "listening"
C30_TransferListenerStopsAfterAttach ==
  [][\A c \in {1} : DexAttached(c) => curveEv'[c] = curveEv[c]]_vars


\* C31: when find_pairs returns a non-empty list the streamer goes to DEX
\* streaming with one Swap listener per returned pair and starts neither the
\* Transfer listener, nor the PairCreated listener, nor the hand-off task, and
\* does not probe the curve; the curve is probed only after an empty list.
NoCurveTask(c) == xfer[c] = "none" /\ pcl[c] = "none" /\ hand[c] = "none"
C32_OneFetchPerAddress ==
  \A T \in Tokens :
    Cardinality({k \in Caches : fetches[k][T] > 0}) <= 1
      /\ \A k \in Caches : fetches[k][T] <= 1

\* C33: under concurrent get_token_info calls on one cache, an entry that was
\* inserted is never replaced by a different value, and all calls for an
\* address return the same metadata.
C33_EntryImmutable ==
  /\ [][\A T \in Tokens :
          cache[1][T] # NoMeta => cache'[1][T] = cache[1][T]]_vars
  /\ [](\A T \in Tokens : \A i \in 1..Len(rets[1][T]) : rets[1][T][i] = rets[1][T][1])


\* C34: when subscribe_logs fails for one listener only that listener ends: in
\* that step no other subscription task of the token or of another token
\* changes, and the start that spawned it has returned Ok and stays so.
SwapSubFailed(c, p) == swapL[c][p] = "subscribing" /\ swapL'[c][p] = "done"
XferSubFailed(c) == xfer[c] = "subscribing" /\ xfer'[c] = "done"
PclSubFailed(c) == pcl[c] = "subscribing" /\ pcl'[c] = "done"
OthersKeep(c) ==
  /\ \A d \in Calls \ {c} : swapL'[d] = swapL[d] /\ xfer'[d] = xfer[d] /\ pcl'[d] = pcl[d]
  /\ str' = str /\ str[c] \in {"dex", "curve"}
  /\ evVars' = evVars
HandoffListeners(c) == {p \in Pools : swapL[c][p] # "none"}
RECURSIVE Candidates(_)
Candidates(logs) ==
  IF logs = <<>> THEN <<>>
  ELSE LET l == Head(logs) IN
    (IF l.launchpad /\ l.len >= 160 THEN <<l.at128>> ELSE <<>>)
      \o (IF l.launchpad /\ l.len >= 96 THEN <<l.at64>> ELSE <<>>)
      \o Candidates(Tail(logs))
InRange(v) == 0 < v /\ v < MAX_BNB_AMOUNT
FirstInRange(s) ==
  IF \E k \in 1..Len(s) : InRange(s[k])
  THEN s[CHOOSE k \in 1..Len(s) : InRange(s[k]) /\ \A j \in 1..(k - 1) : ~InRange(s[j])]
  ELSE 0
IsBuy(i) == i.side = "from_curve"
UsesTxValue(i) == IsBuy(i) /\ i.get_transaction = "some" /\ i.tx_value # 0
ExpectedBase(i) ==
  IF UsesTxValue(i) THEN i.tx_value
  ELSE IF i.receipt = "some" THEN FirstInRange(Candidates(i.logs)) ELSE 0
\* an RPC read that the recovery makes fails
RecoveryRpcFails(i) ==
  \/ IsBuy(i) /\ i.get_transaction = "err"
  \/ ~UsesTxValue(i) /\ i.receipt = "err"
C36_BaseAmountRecovery ==
  (out.fn = "parse_bonding_curve_event" /\ ~RecoveryRpcFails(inp)) =>
    /\ out.res.kind = "ok"
    /\ out.res.trade.trade_type = (IF IsBuy(inp) THEN "Buy" ELSE "Sell")
    /\ out.res.trade.base_amount = ExpectedBase(inp)
    /\ out.res.trade.base_amount = 0 => out.price[1] = 0
C36_Witness ==
  /\ out.fn = "parse_bonding_curve_event" /\ out.res.kind = "ok"
  /\ ~IsBuy(inp) /\ inp.receipt = "some" /\ Len(inp.logs) = 2
  /\ inp.logs[1].launchpad /\ inp.logs[1].len = 160
  /\ inp.logs[1].at128 = MAX_BNB_AMOUNT /\ inp.logs[1].at64 = 0
  /\ inp.logs[2].launchpad /\ inp.logs[2].len = 160
  /\ inp.logs[2].at128 = 2 /\ inp.logs[2].at64 = 1
  /\ out.res.trade.base_amount = 2


\* C37: StreamerRunner::start with platform(Platform::PancakeSwap) never starts
\* the bonding-curve Transfer and PairCreated listeners, also for a token
\* without a DEX pool that resides on the launchpad; start without a token
\* address, or with neither auto_detect() nor platform(), returns an error and
\* spawns nothing.
RunnerSpawnedNothing ==
  \A c \in Calls : kind[c] = "none" /\ ~ListenerAlive(c) /\ hand[c] = "none"
C37_ManualPlatform ==
  /\ inp.platform = "PancakeSwap" =>
       \A c \in Calls : xfer[c] = "none" /\ pcl[c] = "none"
  /\ (out.fn = "start" /\ (~inp.token_address \/ (~inp.auto_detect /\ inp.platform = "none")))
       => out.res.kind = "err" /\ RunnerSpawnedNothing


\* C38: if the cancellation handle of an added token is signalled before its
\* discovery (pair finder and curve probe) has returned, the supervisor
\* abandons the streamer: no subscription task is spawned for the token, no
\* sink of it is invoked, and the entry is removed.
CancelledInDiscovery(c) ==
  kind[c] = "registry" /\ cancelled[c] /\ str[c] \in {"finding", "probing"}
C38_CancelDuringDiscovery ==
  /\ [][\A c \in Calls : CancelledInDiscovery(c) =>
          /\ str'[c] \notin {"dex", "curve"}
          /\ swapL'[c] = swapL[c] /\ xfer'[c] = "none" /\ pcl'[c] = "none"
          /\ hand'[c] = "none"
          /\ migEv'[c] = 0 /\ swapEv'[c] = 0 /\ curveEv'[c] = 0]_vars
  /\ [](\A c \in Calls :
          (kind[c] = "registry" /\ cancelled[c] /\ sup[c] = "exited") => tokens[addr[c]] # c)


\* C39: SwapStreamer::stop() changes only the is_streaming flag: it terminates
\* none of the subscription tasks spawned by start, which keep delivering
\* events to the sink after stop() returns; and start() on a streamer whose
\* flag is set returns Ok without running discovery or spawning any task.
StopStep == out'.fn = "stop" /\ out' # out
FlaggedStartStep(c) == out'.fn = "start" /\ out' # out /\ is_streaming[c]
TasksUntouched ==
  /\ swapVars' = swapVars /\ curveVars' = curveVars /\ evVars' = evVars
  /\ str' = str /\ stok' = stok /\ sup' = sup
  /\ regVars' = regVars /\ callVars' = callVars /\ envVars' = envVars
C39_StopOnlyClearsFlag ==
  [][/\ StopStep => (TasksUntouched /\ \A c \in Calls : is_streaming'[c] => is_streaming[c])
     /\ (\A c \in Calls : is_streaming[c] /\ ~is_streaming'[c]) => StopStep
     /\ \A c \in {1} : FlaggedStartStep(c) =>
          TasksUntouched /\ is_streaming' = is_streaming /\ out'.res.kind = "ok"]_vars
C39_Witness ==
  \E c \in {1} :
    /\ out.fn = "stop" /\ ~is_streaming[c] /\ ~stok[c]
    /\ str[c] = "dex" /\ swapEv[c] > out.events
    /\ \E p \in Pools : swapL[c][p] = "listening"


\* C40: once the cancellation signal of a token's streamer is set, no
\* MigrationEvent is delivered to its migration sink and no new DEX
\* subscription task is started for it, also when the PairCreated log reached
\* the migration hand-off task before the cancellation and the pair finder
\* re-run completes after it.
C40_NoMigrationAfterCancel ==
  [][\A c \in Calls : (CurveStart(c) /\ stok[c]) =>
       /\ migEv'[c] = migEv[c] /\ migLog'[c] = migLog[c]
       /\ \A p \in Pools : swapL'[c][p] = "subscribing" => swapL[c][p] = "subscribing"]_vars

====
